---- MODULE Spec2Model ----
(***************************************************************************)
(* Authentication controller (GoogleAuthenticator), its cookie store and   *)
(* the download synchronizer (Downloader.download_from_browser) of         *)
(* notebook-lm-generation, as state machines.                              *)
(***************************************************************************)
EXTENDS Integers, Sequences, FiniteSets, TLC

\* ------------------------------------------------------------------ bounds
MaxCookies == 2        \* longest cookie snapshot the cookie-store runs draw
VerifyPolls == 2       \* URL polls that fit in the verification wait window
DownloadTimeout == 2   \* the timeout argument of a download, in poll intervals

\* --------------------------------------------------------------- cookies
CookieNames == {"SID", "OSID"}
CookieDomains == {".google.com", "myaccount.google.com"}
CookiePaths == {"/"}
CookieValues == {"good", "stale"}

\* A cookie as the driver hands it out: a dict with these keys.
Cookies == [name : CookieNames, value : CookieValues,
            domain : CookieDomains, path : CookiePaths]

\* The cookies the provider sets for a session whose token is v.
ProviderSession(v) ==
    << [name |-> "SID", value |-> v, domain |-> ".google.com", path |-> "/"],
       [name |-> "OSID", value |-> v, domain |-> "myaccount.google.com", path |-> "/"] >>

\* The session is authenticated when the jar holds the provider's live token.
SignedIn(j) ==
    \E i \in 1..Len(j) : j[i].name = "SID" /\ j[i].domain = ".google.com"
                         /\ j[i].value = "good"

\* ----------------------------------------------------- pickle (dump / load)
\* DumpCookie with the value written under "domain" and the domain under "value".
DumpCookieSwapped(c) ==
    << "EMPTY_DICT", "MARK", "name", c.name, "value", c.domain,
       "domain", c.value, "path", c.path, "SETITEMS" >>

\* pickle.dump of one dict: EMPTY_DICT MARK k1 v1 ... SETITEMS
DumpCookie(c) ==
    << "EMPTY_DICT", "MARK", "name", c.name, "value", c.value,
       "domain", c.domain, "path", c.path, "SETITEMS" >>

CookieKeys == {"name", "value", "domain", "path"}

\* Tokens of one pickled dict: two opcodes, a key and a value per field, SETITEMS.
DictLen == 2 + 2 * Cardinality(CookieKeys) + 1

RECURSIVE DumpItems(_)
DumpItems(cs) ==
    IF cs = <<>> THEN <<>> ELSE DumpCookie(Head(cs)) \o DumpItems(Tail(cs))

\* pickle.dump of a list of dicts: PROTO EMPTY_LIST MARK item* APPENDS STOP
Dumps(cs) ==
    IF cs = <<>> THEN << "PROTO", "EMPTY_LIST", "STOP" >>
    ELSE << "PROTO", "EMPTY_LIST", "MARK" >> \o DumpItems(cs) \o << "APPENDS", "STOP" >>

\* The dict whose pickled form starts at b[i]: SETITEMS stores each value under
\* the key that precedes it.
DictAt(b, i) ==
    LET pairs == { << b[i + 2 * k], b[i + 2 * k + 1] >> : k \in 1..4 }
        get(key) == (CHOOSE p \in pairs : p[1] = key)[2]
    IN [name |-> get("name"), value |-> get("value"),
        domain |-> get("domain"), path |-> get("path")]

IsDictAt(b, i) ==
    /\ i + DictLen - 1 <= Len(b)
    /\ b[i] = "EMPTY_DICT" /\ b[i + 1] = "MARK" /\ b[i + DictLen - 1] = "SETITEMS"
    /\ { b[i + 2 * k] : k \in 1..4 } = CookieKeys

\* The items from b[i] up to APPENDS STOP, appended in stream order;
\* ok is FALSE when the stream ends early or holds an unknown opcode.
RECURSIVE LoadItems(_, _, _)
LoadItems(b, i, acc) ==
    IF i + 1 = Len(b) /\ b[i] = "APPENDS" /\ b[i + 1] = "STOP"
    THEN [ok |-> TRUE, cookies |-> acc]
    ELSE IF IsDictAt(b, i)
    THEN LoadItems(b, i + DictLen, Append(acc, DictAt(b, i)))
    ELSE [ok |-> FALSE, cookies |-> <<>>]

\* pickle.load: ok is FALSE where the unpickler raises (EOFError, UnpicklingError).
Loads(b) ==
    IF b = << "PROTO", "EMPTY_LIST", "STOP" >> THEN [ok |-> TRUE, cookies |-> <<>>]
    ELSE IF Len(b) >= 3 /\ b[1] = "PROTO" /\ b[2] = "EMPTY_LIST" /\ b[3] = "MARK"
    THEN LoadItems(b, 4, <<>>)
    ELSE [ok |-> FALSE, cookies |-> <<>>]

\* ------------------------------------------------------------ cookie jar
SameCookieId(c, d) == c.name = d.name /\ c.domain = d.domain /\ c.path = d.path

\* driver.add_cookie: a cookie replaces the one with its identity, else is added.
AddCookie(j, c) ==
    IF \E i \in 1..Len(j) : SameCookieId(j[i], c)
    THEN [i \in 1..Len(j) |-> IF SameCookieId(j[i], c) THEN c ELSE j[i]]
    ELSE Append(j, c)

\* On https://www.google.com the browser rejects a host-only cookie of another host.
DomainMismatch(c) == c.domain = "myaccount.google.com"

\* InjectFrom with the loop left at the first add_cookie that raises.
RECURSIVE InjectFromUntilFailure(_, _, _, _)
InjectFromUntilFailure(j, cs, i, failing) ==
    IF i > Len(cs) THEN j
    ELSE IF i \in failing \/ DomainMismatch(cs[i]) THEN j
    ELSE InjectFromUntilFailure(AddCookie(j, cs[i]), cs, i + 1, failing)

\* The loop of _load_cookies: every cookie is tried in order; one whose
\* add_cookie raises (index in failing, or a domain mismatch) is skipped.
RECURSIVE InjectFrom(_, _, _, _)
InjectFrom(j, cs, i, failing) ==
    IF i > Len(cs) THEN j
    ELSE InjectFrom(IF i \in failing \/ DomainMismatch(cs[i]) THEN j
                    ELSE AddCookie(j, cs[i]),
                    cs, i + 1, failing)

InjectAll(j, cs, failing) == InjectFrom(j, cs, 1, failing)

\* -------------------------------------------------------- download names
\* A file name as its dot-separated parts: b.pdf.crdownload is <<"b","pdf","crdownload">>.
FinalNames == { << "a", "pdf" >>, << "b", "pdf" >> }
InProgressSuffixes == {"crdownload", "part", "tmp"}
PartialNames == { f \o << x >> : f \in FinalNames, x \in InProgressSuffixes }
DlNames == FinalNames \cup PartialNames

\* f.name.endswith(('.crdownload', '.part', '.tmp'))
EndsInProgress(name) == Len(name) >= 2 /\ name[Len(name)] \in InProgressSuffixes

\* set(download_dir.glob("*"))
Listing(dir) == { n \in DOMAIN dir : dir[n] # 0 }

\* CompleteFiles with the names listed before the click not taken out.
CompleteFilesOfAll(dir, before) == { f \in Listing(dir) : ~EndsInProgress(f) }

\* CompleteFiles with a file the download replaced counted as new.
CompleteFilesChanged(dir, before) ==
    { f \in Listing(dir) : ~EndsInProgress(f) /\ (f \notin before \/ dir[f] = 2) }

\* CompleteFiles with only the files of a video extension kept.
CompleteFilesVideo(dir, before) ==
    { f \in Listing(dir) \ before : ~EndsInProgress(f) /\ f[Len(f)] = "mp4" }

\* complete_files of one poll (lines 189-196)
CompleteFiles(dir, before) == { f \in Listing(dir) \ before : ~EndsInProgress(f) }

\* KeepsPolling with the elapsed time never compared with the timeout.
KeepsPollingForever(t) == TRUE

\* The loop condition of line 188.
KeepsPolling(t) == t < DownloadTimeout

EmptyDir == [n \in DlNames |-> 0]

\* The output tree: self.dirs of Downloader.__init__, one directory per category.
OutputDir == "output_dir"
Categories ==
    { "videos", "handouts", "cheatsheets", "mindmaps", "audiobooks", "stories",
      "strategies", "flashcards", "anki", "quizzes", "discussions" }

\* content_type arguments of the calls: a category, and a type that is none.
ContentTypes == { "videos", "podcasts" }

\* The filename and expected_extension arguments of the calls.
Filename == "lecture"
ExpectedExtension == "mp4"

\* get_dir: self.dirs.get(content_type, self.output_dir)
GetDir(contentType) ==
    IF contentType \in Categories THEN << OutputDir, contentType >> ELSE << OutputDir >>

\* output_path of line 209, as its directories and the file name's parts.
OutputPath(contentType) == GetDir(contentType) \o << Filename, ExpectedExtension >>


\* ----------------------------------------------------------------- state
VARIABLES
    driver,        \* self.driver: "None" or "live"
    browsers,      \* browser processes created and not quit
    cookieFile,    \* google_cookies.pkl: [exists, data]
    jar,           \* cookies of the live browser, in get_cookies order
    pc,            \* where the running login_google call stands, or "idle"
    result,        \* what the last login_google call did: "none", "True", "False", "raised"
    returnedAt,    \* the statement that ended the last call
    markers,       \* challenge texts on the current page
    urlAuth,       \* current_url contains "myaccount" or "mail"
    polls,         \* URL polls done in the running verification wait
    lastDom,       \* what the last signed-in probe saw on the my-account page
    loaded,        \* this call's _load_cookies: "unset", "yes", "no"
    enteredCreds,  \* this call opened the sign-in page
    typed,         \* what this call has sent to the sign-in form
    probes,        \* _is_logged_in calls of this call
    probesAtEntry, \* probes done when this call opened the sign-in page
    saves,         \* _save_cookies calls of this call
    timedOut,      \* this call's verification wait ran out
    kind,          \* the challenge this call detected: "none", "phone", "2fa"
    handled,       \* what this call's _handle_verification returned, or "unset"
    fault,         \* an operation of this call raised
    lastOp,        \* the last public operation begun: "none", "login", "close",
                   \* "get_driver", "navigate"
    closeLog,      \* what the last call did if it was close: its steps in order
    inRow,         \* this call directly follows another login_google call
    validAtStart,  \* the browser was signed in when this call started
    prevResult,    \* result of the call before this one
    prevFault,     \* the call before this one returned True with a fault on its way
    prevKind,      \* where the call before this one failed, "none" if it did not
    saved,         \* the cookie list of the last complete pickle.dump
    olderSaved,    \* the cookie list of the complete pickle.dump before that one
    got,           \* the cookie list the last direct _load_cookies unpickled
    rejected,      \* positions of `got` whose add_cookie raised
    freshLoad,     \* that load ran in a browser without cookies
    dlDir,         \* ~/Downloads: name -> content (0 none, 1 there before, 2 downloaded,
                   \* 3 other, 3 + i the download of the i-th call running side by side)
    filesBefore,   \* files_before: the names listed before the click
    dpc,           \* where download_from_browser stands
    now,           \* whole poll intervals elapsed since start_time
    newFile,       \* new_file: the selected name, or <<>> for None
    dret,          \* what the call returned: "none" yet, "None", "path" or "raised"
    dexit,         \* the statement that ended the call
    outFile,       \* content at <category dir>/<filename>.<expected_extension>
    triggered,     \* the click went through
    flight,        \* the name the browser is still writing under, or <<>>
    started,       \* the browser has begun the download
    inTime,        \* a new complete file appeared before the deadline
    overwrote,     \* the download was finished, before the deadline, under a name of
                   \* files_before
    polledAt,      \* `now` at the last listing of the polling loop, -1 before
    contentType,   \* the call's content_type argument
    outPath,       \* the path the file was moved to and the call returned, or <<>>
    acq,           \* download_from_browser calls running side by side: per call its
                   \* position, files_before, elapsed intervals, new_file, return
                   \* value and exit, the content at its output path, whether its
                   \* click went through and whether its download has arrived
    catDirs,       \* the directories of self.dirs: category -> "empty", "used" (it
                   \* holds an entry) or "absent"
    fc             \* a FlashcardGenerator.generate call: its arguments, the clients
                   \* the generator has, its position, the cards collected (by
                   \* source), the sources tried, what Gemini was asked for, the
                   \* sources that raised, the cards of the returned deck

authVars == << driver, browsers, cookieFile, jar, pc, result, returnedAt, markers,
               urlAuth, polls, lastDom, loaded, enteredCreds, typed, probes,
               probesAtEntry, saves, timedOut, kind, handled, fault, lastOp, closeLog,
               inRow, validAtStart, prevResult, prevFault, prevKind >>

storeGhosts == << saved, olderSaved, got, rejected, freshLoad >>

dlVars == << dlDir, filesBefore, dpc, now, newFile, dret, dexit, outFile, triggered,
            flight, started, inTime, overwrote,
                    polledAt, contentType, outPath >>

nonAuth == << storeGhosts, dlVars, acq, catDirs, fc >>

vars == << authVars, storeGhosts, dlVars, acq, catDirs, fc >>

MaxBrowsers == 2   \* browser processes the runs let pile up

PhoneMarker == "Verify it"
TwoStepMarker == "2-Step Verification"
Markers == {PhoneMarker, TwoStepMarker}

\* The calls that run side by side, and one that has not begun.
Acqs == {1, 2}
AcqIdle ==
    [pc |-> "idle", before |-> {}, t |-> 0, sel |-> <<>>, ret |-> "none",
     at |-> "none", out |-> 0, clicked |-> FALSE, delivered |-> FALSE]

\* _create_directories: mkdir(parents=True, exist_ok=True) for every category;
\* a directory that is there stays as it is.
CreateDirectories(ds) ==
    [c \in Categories |-> IF ds[c] = "absent" THEN "empty" ELSE ds[c]]

\* cleanup_empty_dirs: rmdir of every category directory that exists and holds
\* nothing.
CleanupEmptyDirs(ds) ==
    [c \in Categories |-> IF ds[c] = "empty" THEN "absent" ELSE ds[c]]

\* The directory get_dir answers for `ct` exists: a category directory as
\* recorded, the output root (made with the first category directory) always.
DirExists(ds, ct) == ct \in Categories => ds[ct] # "absent"

\* An entry was written into the directory get_dir answers for `ct`.
DirsAfterWrite(ds, ct) ==
    [c \in Categories |-> IF c = ct THEN "used" ELSE ds[c]]

\* No generate call has begun.
FcIdle ==
    [pc |-> "idle", n |-> 0, incl |-> FALSE, nlm |-> FALSE, gem |-> FALSE, kw |-> 0,
     cards |-> <<>>, tried |-> <<>>, asked |-> 0, failed |-> {}, deck |-> <<>>]

\* No download call has begun.
DlIdle ==
    /\ dlDir = EmptyDir /\ filesBefore = {} /\ dpc = "idle" /\ now = 0
    /\ newFile = <<>> /\ dret = "none" /\ dexit = "none" /\ outFile = 0
    /\ triggered = FALSE /\ flight = <<>> /\ started = FALSE /\ inTime = FALSE
    /\ overwrote = FALSE
    /\ polledAt = -1 /\ contentType = "videos" /\ outPath = <<>>
    /\ acq = [i \in Acqs |-> AcqIdle]
    /\ catDirs = CreateDirectories([c \in Categories |-> "absent"])
    /\ fc = FcIdle

NoFile == [exists |-> FALSE, data |-> <<>>]
FileOf(b) == [exists |-> TRUE, data |-> b]

\* What a previous run can have left at the cookie path.
InitialFiles ==
    { NoFile, FileOf(<<>>),
      FileOf(Dumps(ProviderSession("good"))), FileOf(Dumps(ProviderSession("stale"))) }

NoDom == [load |-> FALSE, indicator |-> "absent", signin |-> "absent"]

\* What a probe can see on the my-account page: the indicator only in a signed-in
\* session, the sign-in link only in a signed-out one; a lookup may also raise.
\* The sign-in link is looked up (and recorded) only after the indicator was
\* looked up and not found.
Doms(signedIn) ==
    { d \in [load : BOOLEAN, indicator : {"found", "absent", "error"},
             signin : {"found", "absent", "error"}] :
        /\ d.indicator = "found" => signedIn
        /\ d.signin = "found" => ~signedIn
        /\ d.indicator # "absent" => d.signin = "absent"
        /\ ~d.load => d = NoDom }

DomFault(d) == ~d.load \/ d.indicator = "error" \/ d.signin = "error"

\* IsLoggedIn with the outer except (line 235) answering True.
IsLoggedInOnError(d) ==
    IF ~d.load THEN TRUE
    ELSE IF d.indicator = "found" THEN TRUE
    ELSE IF d.indicator = "error" THEN TRUE
    ELSE IF d.signin = "found" THEN FALSE
    ELSE TRUE

\* _is_logged_in
IsLoggedIn(d) ==
    IF ~d.load THEN FALSE
    ELSE IF d.indicator = "found" THEN TRUE
    ELSE IF d.indicator = "error" THEN FALSE
    ELSE IF d.signin = "found" THEN FALSE
    ELSE IF d.signin = "absent" THEN TRUE
    ELSE FALSE

\* _save_cookies with a live driver: open(..., "wb") truncates, then
\* get_cookies() and pickle.dump write the snapshot.
SaveOutcomes == {"ok", "open_fail", "get_cookies_fail", "write_fail"}

\* Where a failing pickle.dump can stop: after the header, midway, before STOP.
WriteCuts(n) == {1, n \div 2, n - 1}

\* FilesAfterSave with a dump that writes nothing: the file stays as it was.
FilesAfterSaveNothing(file, j, how) == { file }

\* FilesAfterSave with the file left truncated whatever the dump did.
FilesAfterSaveTruncates(file, j, how) == { FileOf(<<>>) }

\* FilesAfterSave with a complete dump that appends to the list already stored.
FilesAfterSaveMerges(file, j, how) ==
    IF how = "ok" /\ file.exists /\ Loads(file.data).ok
    THEN { FileOf(Dumps(Loads(file.data).cookies \o j)) }
    ELSE { FileOf(Dumps(j)) }

FilesAfterSave(file, j, how) ==
    CASE how = "ok" -> { FileOf(Dumps(j)) }
      [] how = "open_fail" -> { file }
      [] how = "get_cookies_fail" -> { FileOf(<<>>) }
      [] how = "write_fail" ->
            { FileOf(SubSeq(Dumps(j), 1, k)) : k \in WriteCuts(Len(Dumps(j))) }

\* ReadFile with the snapshot never handed on: every read ends as "absent".
ReadFileNeverLoads(file, getOk) == [how |-> "absent", cookies |-> <<>>]

\* _load_cookies up to the injection loop: "absent" (line 118), "error"
\* (the except of line 137) or the unpickled list.
ReadFile(file, getOk) ==
    IF ~file.exists THEN [how |-> "absent", cookies |-> <<>>]
    ELSE IF ~Loads(file.data).ok \/ ~getOk THEN [how |-> "error", cookies |-> <<>>]
    ELSE [how |-> "loaded", cookies |-> Loads(file.data).cookies]

Range(f) == { f[i] : i \in DOMAIN f }

Init ==
    /\ driver = "None" /\ browsers = 0
    /\ cookieFile \in InitialFiles
    /\ jar = <<>>
    /\ pc = "idle" /\ result = "none" /\ returnedAt = "none"
    /\ markers = {} /\ urlAuth = FALSE /\ polls = 0
    /\ lastDom = NoDom /\ loaded = "unset"
    /\ enteredCreds = FALSE /\ typed = <<>> /\ probes = 0 /\ probesAtEntry = 0
    /\ saves = 0 /\ timedOut = FALSE /\ kind = "none" /\ handled = "unset"
    /\ fault = FALSE
    /\ lastOp = "none" /\ closeLog = <<>> /\ inRow = FALSE /\ validAtStart = FALSE
    /\ prevResult = "none" /\ prevFault = FALSE /\ prevKind = "none"
    /\ saved = <<>> /\ olderSaved = <<>> /\ got = <<>> /\ rejected = {}
    /\ freshLoad = FALSE
    /\ DlIdle

pageVars == << markers, urlAuth, polls >>
callGhosts == << loaded, enteredCreds, typed, probes, probesAtEntry, saves, timedOut,
                kind, handled >>
rowGhosts == << lastOp, closeLog, inRow, validAtStart, prevResult, prevFault,
               prevKind >>

\* Return with the exception handed on to the caller instead of a value.
ReturnRaises(r, at) ==
    /\ pc' = "idle" /\ result' = "raised" /\ returnedAt' = at

\* The call returns `r` from the statement `at`.
Return(r, at) ==
    /\ pc' = "idle" /\ result' = r /\ returnedAt' = at

\* get_driver: creates the browser when self.driver is None.
GetDriver(createOk) ==
    IF driver = "live"
    THEN UNCHANGED << driver, browsers, jar, markers, urlAuth >>
    ELSE IF createOk
    THEN /\ driver' = "live" /\ browsers' = browsers + 1
         /\ jar' = <<>> /\ markers' = {} /\ urlAuth' = FALSE
    ELSE UNCHANGED << driver, browsers, jar, markers, urlAuth >>

\* Where the last login_google call failed, by the statement that ended it:
\* a bounded wait of the credential entry (line 210), the verification wait
\* (the TimeoutException caught at line 273), the final check (line 206).
AuthFailure ==
    IF result # "False" THEN "none"
    ELSE IF returnedAt = "line210" THEN "Timeout"
    ELSE IF timedOut THEN "VerificationTimeout"
    ELSE IF returnedAt = "line206" THEN "LoginUnconfirmed"
    ELSE "other"

\* StepsBeforeEntry with get_driver called ahead of the credential check.
StepsBeforeEntryDriverFirst(haveCreds) == << "get_driver" >>

\* login_google lines 152-159: what runs before the try block; nothing when the
\* credential check of line 155 returns.
StepsBeforeEntry(haveCreds) == IF haveCreds THEN << "get_driver" >> ELSE <<>>

\* login_google, lines 152-159: the credential check and get_driver.
LoginStart(haveCreds, createOk) ==
    /\ pc = "idle"
    /\ driver = "None" => browsers < MaxBrowsers
    /\ lastOp' = "login" /\ closeLog' = <<>> /\ inRow' = (lastOp = "login")
    /\ validAtStart' = (driver = "live" /\ SignedIn(jar))
    /\ prevResult' = result /\ prevFault' = (fault /\ result = "True")
    /\ prevKind' = AuthFailure
    /\ loaded' = "unset" /\ enteredCreds' = FALSE /\ typed' = <<>>
    /\ probes' = 0 /\ probesAtEntry' = 0 /\ saves' = 0 /\ timedOut' = FALSE
    /\ kind' = "none" /\ handled' = "unset" /\ polls' = 0
    /\ UNCHANGED << cookieFile, lastDom >>
    /\ UNCHANGED nonAuth
    /\ IF ~haveCreds
       THEN /\ Return("False", "line157") /\ fault' = FALSE
            /\ IF "get_driver" \in Range(StepsBeforeEntry(haveCreds))
               THEN GetDriver(createOk)
               ELSE UNCHANGED << driver, browsers, jar, markers, urlAuth >>
       ELSE /\ GetDriver(createOk)
            /\ IF driver = "None" /\ ~createOk
               THEN Return("raised", "line159") /\ fault' = TRUE
               ELSE /\ pc' = "RestoringSession" /\ fault' = FALSE
                    /\ result' = "none" /\ returnedAt' = "none"

\* AfterLoad with the probe run whatever _load_cookies returned.
AfterLoadAlwaysProbes(how) == "VerifyingSession"

\* login_google line 163: the probe follows a loaded snapshot only.
AfterLoad(how) == IF how = "loaded" THEN "VerifyingSession" ELSE "SignInPage"

\* LoadReturn with the except of line 137 missing: a read error propagates.
LoadReturnRaises(how) ==
    IF how = "loaded" THEN "yes" ELSE IF how = "error" THEN "raised" ELSE "no"

\* What _load_cookies returns: True ("yes") after the injection loop, False ("no")
\* from line 118 and from the except of line 137.
LoadReturn(how) == IF how = "loaded" THEN "yes" ELSE "no"

\* The positions of cs whose add_cookie raises.
Rejected(cs, failing) ==
    { i \in 1..Len(cs) : i \in failing \/ DomainMismatch(cs[i]) }

\* _load_cookies: the file is read, https://www.google.com opened, the cookies
\* injected one by one.
LoadCookies(getOk, failing) ==
    LET r == ReadFile(cookieFile, getOk /\ driver = "live")
    IN /\ failing \subseteq 1..Len(r.cookies)
       /\ jar' = InjectAll(jar, r.cookies, failing)
       /\ loaded' = LoadReturn(r.how)
       /\ markers' = IF r.how = "absent" THEN markers ELSE {}
       /\ urlAuth' = IF r.how = "absent" THEN urlAuth ELSE FALSE

\* login_google line 163: _load_cookies.
RestoreSession(getOk, failing) ==
    /\ pc = "RestoringSession"
    /\ LoadCookies(getOk, failing)
    /\ pc' = AfterLoad(ReadFile(cookieFile, getOk).how)
    /\ fault' = (fault \/ ReadFile(cookieFile, getOk).how = "error" \/ failing # {})
    /\ UNCHANGED << driver, browsers, cookieFile, result, returnedAt, polls, lastDom,
                    enteredCreds, typed, probes, probesAtEntry, saves, timedOut,
                    kind, handled >>
    /\ UNCHANGED rowGhosts
    /\ UNCHANGED nonAuth

\* AfterRestoreProbe with a failed probe ending the call.
AfterRestoreProbeFails(logged) ==
    IF logged THEN [returns |-> TRUE, value |-> "True", at |-> "line170"]
    ELSE [returns |-> TRUE, value |-> "False", at |-> "line206"]

\* login_google lines 168-172: a restored session that passes the probe ends the
\* call with True; one that does not falls through to the sign-in page.
AfterRestoreProbe(logged) ==
    IF logged THEN [returns |-> TRUE, value |-> "True", at |-> "line170"]
    ELSE [returns |-> FALSE, value |-> "none", at |-> "none"]

\* login_google lines 164-170: the my-account probe of the restored session.
VerifySession(getOk, d) ==
    /\ pc = "VerifyingSession"
    /\ d \in Doms(SignedIn(jar))
    /\ IF ~getOk
       THEN /\ Return("False", "line213") /\ fault' = TRUE
            /\ UNCHANGED << lastDom, probes >>
       ELSE /\ lastDom' = d /\ probes' = probes + 1
            /\ fault' = (fault \/ DomFault(d))
            /\ IF AfterRestoreProbe(IsLoggedIn(d)).returns
               THEN Return(AfterRestoreProbe(IsLoggedIn(d)).value,
                           AfterRestoreProbe(IsLoggedIn(d)).at)
               ELSE pc' = "SignInPage" /\ UNCHANGED << result, returnedAt >>
    /\ markers' = {} /\ urlAuth' = (getOk /\ d.load /\ SignedIn(jar))
    /\ UNCHANGED << driver, browsers, cookieFile, jar, polls, loaded, enteredCreds,
                    typed, probesAtEntry, saves, timedOut, kind, handled >>
    /\ UNCHANGED rowGhosts
    /\ UNCHANGED nonAuth

\* EntryStepAfter with the password asked for on the sign-in page itself.
EntryStepAfterSkipsEmail(at) ==
    CASE at = "SignInPage" -> "PasswordEntry"
      [] at = "EmailEntry" -> "PasswordEntry"
      [] at = "PasswordEntry" -> "ChallengeScan"

\* login_google lines 172-196, the order of the statements: the sign-in page,
\* the email, the password, _handle_verification.
EntryStepAfter(at) ==
    CASE at = "SignInPage" -> "EmailEntry"
      [] at = "EmailEntry" -> "PasswordEntry"
      [] at = "PasswordEntry" -> "ChallengeScan"

\* login_google lines 172-175: the sign-in page is opened.
OpenSignIn(getOk) ==
    /\ pc = "SignInPage"
    /\ enteredCreds' = TRUE /\ probesAtEntry' = probes
    /\ IF getOk
       THEN pc' = EntryStepAfter("SignInPage") /\ UNCHANGED << result, returnedAt, fault >>
       ELSE Return("False", "line213") /\ fault' = TRUE
    /\ markers' = {} /\ urlAuth' = FALSE
    /\ UNCHANGED << driver, browsers, cookieFile, jar, polls, lastDom, loaded, typed,
                    probes, saves, timedOut, kind, handled >>
    /\ UNCHANGED rowGhosts
    /\ UNCHANGED nonAuth

WaitOutcomes == {"ok", "timeout", "error"}

\* login_google lines 177-184: the bounded wait for the email input, then the email.
EnterEmail(out) ==
    /\ pc = "EmailEntry"
    /\ CASE out = "ok" -> /\ typed' = Append(typed, "email")
                          /\ pc' = EntryStepAfter("EmailEntry")
                          /\ UNCHANGED << result, returnedAt, fault >>
         [] out = "timeout" -> /\ Return("False", "line210") /\ fault' = TRUE
                               /\ UNCHANGED typed
         [] out = "error" -> /\ Return("False", "line213") /\ fault' = TRUE
                             /\ UNCHANGED typed
    /\ UNCHANGED << driver, browsers, cookieFile, jar, lastDom, loaded, enteredCreds,
                    probes, probesAtEntry, saves, timedOut, kind, handled >>
    /\ UNCHANGED pageVars
    /\ UNCHANGED rowGhosts
    /\ UNCHANGED nonAuth

\* The jar once the provider has set the session's cookies.
AcceptedJar(j) == InjectAll(j, ProviderSession("good"), {})

\* What the provider answers to a submitted password: the account page or
\* another signed-in page, the sign-in page again, or a challenge page.
PasswordPages ==
    { [verdict |-> "accepted", markers |-> {}, url |-> u] : u \in BOOLEAN }
    \cup { [verdict |-> "rejected", markers |-> {}, url |-> FALSE] }
    \cup { [verdict |-> "challenge", markers |-> ms, url |-> FALSE] :
              ms \in (SUBSET Markers) \ {{}} }

\* login_google lines 186-193: the bounded wait for the password input, then the password.
EnterPassword(out, page) ==
    /\ pc = "PasswordEntry"
    /\ CASE out = "ok" ->
              /\ typed' = Append(typed, "password")
              /\ pc' = EntryStepAfter("PasswordEntry")
              /\ jar' = IF page.verdict = "accepted" THEN AcceptedJar(jar) ELSE jar
              /\ markers' = page.markers /\ urlAuth' = page.url
              /\ UNCHANGED << result, returnedAt, fault >>
         [] out = "timeout" -> /\ Return("False", "line210") /\ fault' = TRUE
                               /\ UNCHANGED << typed, jar, markers, urlAuth >>
         [] out = "error" -> /\ Return("False", "line213") /\ fault' = TRUE
                             /\ UNCHANGED << typed, jar, markers, urlAuth >>
    /\ UNCHANGED << driver, browsers, cookieFile, polls, lastDom, loaded, enteredCreds,
                    probes, probesAtEntry, saves, timedOut, kind, handled >>
    /\ UNCHANGED rowGhosts
    /\ UNCHANGED nonAuth

\* _handle_verification lines 240-271 up to the wait: the markers are looked up
\* in order; the first one found starts the wait.
DetectChallenge(ms) ==
    IF PhoneMarker \in ms THEN "phone"
    ELSE IF TwoStepMarker \in ms THEN "2fa"
    ELSE "none"

ScanChallenge(findOk) ==
    /\ pc = "ChallengeScan"
    /\ IF ~findOk
       THEN /\ handled' = "False" /\ pc' = "FinalCheck" /\ fault' = TRUE
            /\ UNCHANGED kind
       ELSE /\ kind' = DetectChallenge(markers) /\ UNCHANGED fault
            /\ IF DetectChallenge(markers) = "none"
               THEN handled' = "False" /\ pc' = "FinalCheck"
               ELSE pc' = "ChallengeWait" /\ UNCHANGED handled
    /\ UNCHANGED << driver, browsers, cookieFile, jar, result, returnedAt, lastDom,
                    loaded, enteredCreds, typed, probes, probesAtEntry, saves, timedOut >>
    /\ UNCHANGED pageVars
    /\ UNCHANGED rowGhosts
    /\ UNCHANGED nonAuth

\* WaitLimit with the wait of the 2-Step branch over at once.
WaitLimitPhoneOnly(k) ==
    CASE k = "phone" -> VerifyPolls
      [] k = "2fa" -> 0

\* The timeout of the wait each branch starts: WebDriverWait(self.driver, 120) at
\* line 251 (phone) and at line 262 (2-Step), in polls.
WaitLimit(k) ==
    CASE k = "phone" -> VerifyPolls
      [] k = "2fa" -> VerifyPolls

\* WebDriverWait(driver, 120).until(url predicate): one poll of current_url.
PollChallenge(urlOk) ==
    /\ pc = "ChallengeWait" /\ polls < WaitLimit(kind)
    /\ IF ~urlOk
       THEN /\ handled' = "False" /\ pc' = "FinalCheck" /\ fault' = TRUE
            /\ UNCHANGED polls
       ELSE IF urlAuth
       THEN /\ handled' = "True" /\ pc' = "FinalCheck"
            /\ UNCHANGED << polls, fault >>
       ELSE /\ polls' = polls + 1 /\ UNCHANGED << handled, pc, fault >>
    /\ UNCHANGED << driver, browsers, cookieFile, jar, result, returnedAt, lastDom,
                    loaded, enteredCreds, typed, probes, probesAtEntry, saves, timedOut,
                    kind, markers, urlAuth >>
    /\ UNCHANGED rowGhosts
    /\ UNCHANGED nonAuth

\* AfterWaitTimeout with the elapsed wait reported as a resolved challenge.
AfterWaitTimeoutResolved == [returns |-> FALSE, handled |-> "True", next |-> "FinalCheck"]

\* _handle_verification line 273: the wait's TimeoutException is caught there,
\* the handler returns False and login_google goes on to its final check.
AfterWaitTimeout == [returns |-> FALSE, handled |-> "False", next |-> "FinalCheck"]

\* The wait's TimeoutException, caught by _handle_verification's except (line 273).
ChallengeTimeout ==
    /\ pc = "ChallengeWait" /\ polls = WaitLimit(kind)
    /\ timedOut' = TRUE /\ handled' = AfterWaitTimeout.handled
    /\ IF AfterWaitTimeout.returns
       THEN Return("False", "line210")
       ELSE pc' = AfterWaitTimeout.next /\ UNCHANGED << result, returnedAt >>
    /\ UNCHANGED << driver, browsers, cookieFile, jar, lastDom, loaded, enteredCreds,
                    typed, probes, probesAtEntry, saves, kind, fault >>
    /\ UNCHANGED pageVars
    /\ UNCHANGED rowGhosts
    /\ UNCHANGED nonAuth

\* The human completes the challenge in the browser window.
HumanResolves(u) ==
    /\ pc \in {"ChallengeScan", "ChallengeWait"} /\ markers # {}
    /\ jar' = AcceptedJar(jar) /\ markers' = {} /\ urlAuth' = u
    /\ UNCHANGED << driver, browsers, cookieFile, pc, result, returnedAt, polls, lastDom,
                    fault >>
    /\ UNCHANGED callGhosts
    /\ UNCHANGED rowGhosts
    /\ UNCHANGED nonAuth

\* login_google lines 199-206: the final signed-in check and the save.
FinalCheck(d, how) ==
    /\ pc = "FinalCheck"
    /\ d \in Doms(SignedIn(jar))
    /\ lastDom' = d /\ probes' = probes + 1
    /\ markers' = {} /\ urlAuth' = (d.load /\ SignedIn(jar))
    /\ IF IsLoggedIn(d)
       THEN /\ saves' = saves + 1
            /\ cookieFile' \in FilesAfterSave(cookieFile, jar, how)
            /\ IF how = "ok"
               THEN Return("True", "line203") /\ fault' = (fault \/ DomFault(d))
               ELSE Return("False", "line213") /\ fault' = TRUE
       ELSE /\ how = "ok"
            /\ Return("False", "line206") /\ fault' = (fault \/ DomFault(d))
            /\ UNCHANGED << saves, cookieFile >>
    /\ UNCHANGED << driver, browsers, jar, polls, loaded, enteredCreds, typed,
                    probesAtEntry, timedOut, kind, handled >>
    /\ UNCHANGED rowGhosts
    /\ UNCHANGED nonAuth

\* Another operation begins: what was recorded of the last login_google call
\* is dropped.
ForgetCall ==
    /\ result' = "none" /\ returnedAt' = "none" /\ polls' = 0 /\ lastDom' = NoDom
    /\ fault' = FALSE /\ loaded' = "unset" /\ enteredCreds' = FALSE /\ typed' = <<>>
    /\ probes' = 0 /\ probesAtEntry' = 0 /\ saves' = 0 /\ timedOut' = FALSE
    /\ kind' = "none" /\ handled' = "unset"
    /\ inRow' = FALSE /\ validAtStart' = FALSE
    /\ prevResult' = "none" /\ prevFault' = FALSE /\ prevKind' = "none"
    /\ UNCHANGED pc

\* get_driver called on its own; a failing _create_driver raises to the caller.
GetDriverCall(createOk) ==
    /\ pc = "idle"
    /\ driver = "None" => browsers < MaxBrowsers
    /\ GetDriver(createOk)
    /\ lastOp' = "get_driver" /\ closeLog' = <<>>
    /\ ForgetCall
    /\ UNCHANGED cookieFile
    /\ UNCHANGED nonAuth

\* navigate_to_notebooklm, navigate_to_gemini, open_gemini_in_new_tab: get_driver
\* and the navigation inside one try; the page shown afterwards is not a
\* sign-in page.
Navigate(createOk, getOk) ==
    /\ pc = "idle"
    /\ driver = "None" => browsers < MaxBrowsers
    /\ IF driver = "None" /\ createOk
       THEN /\ driver' = "live" /\ browsers' = browsers + 1 /\ jar' = <<>>
       ELSE UNCHANGED << driver, browsers, jar >>
    /\ IF (driver = "live" \/ createOk) /\ getOk
       THEN markers' = {} /\ urlAuth' = FALSE
       ELSE UNCHANGED << markers, urlAuth >>
    /\ lastOp' = "navigate" /\ closeLog' = <<>>
    /\ ForgetCall
    /\ UNCHANGED cookieFile
    /\ UNCHANGED nonAuth

\* CloseSteps without the finally clause: an exception skips the rest.
CloseStepsNoFinally(how) ==
    IF how = "ok" THEN << "save", "quit", "forget" >> ELSE << "save" >>

\* close, lines 337-345, with a driver: _save_cookies, then driver.quit() unless
\* the save raised, then (finally) self.driver = None.
CloseSteps(how) ==
    IF how = "ok" THEN << "save", "quit", "forget" >> ELSE << "save", "forget" >>

\* close: save, quit, and in every case forget the driver; nothing without one.
Close(how, quitOk) ==
    /\ pc = "idle"
    /\ IF driver = "live"
       THEN /\ cookieFile' \in FilesAfterSave(cookieFile, jar, how)
            /\ closeLog' = CloseSteps(how)
            /\ browsers' = IF "quit" \in Range(CloseSteps(how)) /\ quitOk
                           THEN browsers - 1 ELSE browsers
            /\ IF "forget" \in Range(CloseSteps(how))
               THEN driver' = "None" /\ jar' = <<>> /\ markers' = {} /\ urlAuth' = FALSE
               ELSE UNCHANGED << driver, jar, markers, urlAuth >>
       ELSE /\ how = "ok" /\ quitOk
            /\ closeLog' = <<>>
            /\ UNCHANGED << cookieFile, browsers, driver, jar, markers, urlAuth >>
    /\ lastOp' = "close"
    /\ ForgetCall
    /\ UNCHANGED nonAuth

Next ==
    \/ \E haveCreds \in BOOLEAN, createOk \in BOOLEAN : LoginStart(haveCreds, createOk)
    \/ \E getOk \in BOOLEAN, failing \in SUBSET (1..MaxCookies) :
          RestoreSession(getOk, failing)
    \/ \E getOk \in BOOLEAN, d \in Doms(TRUE) \cup Doms(FALSE) : VerifySession(getOk, d)
    \/ \E getOk \in BOOLEAN : OpenSignIn(getOk)
    \/ \E out \in WaitOutcomes : EnterEmail(out)
    \/ \E out \in WaitOutcomes, page \in PasswordPages : EnterPassword(out, page)
    \/ \E findOk \in BOOLEAN : ScanChallenge(findOk)
    \/ \E urlOk \in BOOLEAN : PollChallenge(urlOk)
    \/ ChallengeTimeout
    \/ \E u \in BOOLEAN : HumanResolves(u)
    \/ \E d \in Doms(TRUE) \cup Doms(FALSE), how \in SaveOutcomes : FinalCheck(d, how)
    \/ \E how \in SaveOutcomes, quitOk \in BOOLEAN : Close(how, quitOk)
    \/ \E createOk \in BOOLEAN : GetDriverCall(createOk)
    \/ \E createOk \in BOOLEAN, getOk \in BOOLEAN : Navigate(createOk, getOk)

Spec == Init /\ [][Next]_vars

\* The calling thread keeps running: every driver call and every bounded wait
\* of a login_google call returns or raises, and the call goes on.
CallStep ==
    \/ \E getOk \in BOOLEAN, failing \in SUBSET (1..MaxCookies) :
          RestoreSession(getOk, failing)
    \/ \E getOk \in BOOLEAN, d \in Doms(TRUE) \cup Doms(FALSE) : VerifySession(getOk, d)
    \/ \E getOk \in BOOLEAN : OpenSignIn(getOk)
    \/ \E out \in WaitOutcomes : EnterEmail(out)
    \/ \E out \in WaitOutcomes, page \in PasswordPages : EnterPassword(out, page)
    \/ \E findOk \in BOOLEAN : ScanChallenge(findOk)
    \/ \E urlOk \in BOOLEAN : PollChallenge(urlOk)
    \/ ChallengeTimeout
    \/ \E d \in Doms(TRUE) \cup Doms(FALSE), how \in SaveOutcomes : FinalCheck(d, how)

FairSpec == Spec /\ WF_vars(CallStep)

\* -------------------------------------------------- the cookie store alone
\* Cookie lists a browser can hold: no two cookies with one identity.
RECURSIVE JarsOfLen(_)
JarsOfLen(n) ==
    IF n = 0 THEN { <<>> }
    ELSE { Append(j, c) : j \in JarsOfLen(n - 1), c \in Cookies } \cap
         { j \in Seq(Cookies) : \A a, b \in 1..Len(j) : a # b => ~SameCookieId(j[a], j[b]) }

Jars == UNION { JarsOfLen(n) : n \in 0..MaxCookies }

ctlVars == << browsers, pc, result, returnedAt, polls, lastDom, enteredCreds, typed,
              probes, probesAtEntry, saves, timedOut, kind, handled, fault, lastOp,
              closeLog, inRow, validAtStart, prevResult, prevFault, prevKind >>

InitStore ==
    /\ driver = "live" /\ browsers = 1
    /\ cookieFile = NoFile
    /\ jar \in Jars
    /\ pc = "idle" /\ result = "none" /\ returnedAt = "none"
    /\ markers = {} /\ urlAuth = FALSE /\ polls = 0
    /\ lastDom = NoDom /\ loaded = "unset"
    /\ enteredCreds = FALSE /\ typed = <<>> /\ probes = 0 /\ probesAtEntry = 0
    /\ saves = 0 /\ timedOut = FALSE /\ kind = "none" /\ handled = "unset"
    /\ fault = FALSE
    /\ lastOp = "none" /\ closeLog = <<>> /\ inRow = FALSE /\ validAtStart = FALSE
    /\ prevResult = "none" /\ prevFault = FALSE /\ prevKind = "none"
    /\ saved = <<>> /\ olderSaved = <<>> /\ got = <<>> /\ rejected = {}
    /\ freshLoad = FALSE
    /\ DlIdle

\* _save_cookies called on its own.
StoreSave(how) ==
    /\ driver = "live"
    /\ cookieFile' \in FilesAfterSave(cookieFile, jar, how)
    /\ saved' = IF how = "ok" THEN jar ELSE saved
    /\ olderSaved' = IF how = "ok" THEN saved ELSE olderSaved
    /\ loaded' = "unset" /\ got' = <<>> /\ rejected' = {} /\ freshLoad' = FALSE
    /\ UNCHANGED << driver, jar, markers, urlAuth >>
    /\ UNCHANGED ctlVars
    /\ UNCHANGED << dlVars, acq, catDirs, fc >>

\* _load_cookies called on its own.
StoreLoad(getOk, failing) ==
    /\ LoadCookies(getOk, failing)
    /\ got' = ReadFile(cookieFile, getOk /\ driver = "live").cookies
    /\ rejected' = Rejected(got', failing)
    /\ freshLoad' = (jar = <<>>)
    /\ UNCHANGED << driver, cookieFile, saved, olderSaved >>
    /\ UNCHANGED ctlVars
    /\ UNCHANGED << dlVars, acq, catDirs, fc >>

\* A later run: a new controller, get_driver starts a browser without cookies.
StoreRestart ==
    /\ driver' = "live" /\ jar' = <<>>
    /\ loaded' = "unset" /\ got' = <<>> /\ rejected' = {} /\ freshLoad' = FALSE
    /\ markers' = {} /\ urlAuth' = FALSE
    /\ UNCHANGED << cookieFile, saved, olderSaved >>
    /\ UNCHANGED ctlVars
    /\ UNCHANGED << dlVars, acq, catDirs, fc >>

\* The controller is closed without a save: self.driver is None.
StoreDetach ==
    /\ driver = "live"
    /\ driver' = "None" /\ jar' = <<>>
    /\ loaded' = "unset" /\ got' = <<>> /\ rejected' = {} /\ freshLoad' = FALSE
    /\ markers' = {} /\ urlAuth' = FALSE
    /\ UNCHANGED << cookieFile, saved, olderSaved >>
    /\ UNCHANGED ctlVars
    /\ UNCHANGED << dlVars, acq, catDirs, fc >>

NextStore ==
    \/ \E how \in SaveOutcomes : StoreSave(how)
    \/ \E getOk \in BOOLEAN, failing \in SUBSET (1..MaxCookies) : StoreLoad(getOk, failing)
    \/ StoreRestart
    \/ StoreDetach

SpecStore == InitStore /\ [][NextStore]_vars

\* ------------------------------------------------- the download synchronizer
\* What ~/Downloads can hold when a download is asked for: files of earlier
\* downloads, complete or abandoned.
InitialDirs ==
    { [n \in DlNames |-> IF n \in present THEN 1 ELSE 0] :
        present \in SUBSET { << "a", "pdf" >>, << "b", "pdf" >>, << "a", "pdf", "part" >> } }

InitDL ==
    /\ driver = "live" /\ browsers = 1
    /\ cookieFile = NoFile /\ jar = <<>>
    /\ pc = "idle" /\ result = "none" /\ returnedAt = "none"
    /\ markers = {} /\ urlAuth = FALSE /\ polls = 0
    /\ lastDom = NoDom /\ loaded = "unset"
    /\ enteredCreds = FALSE /\ typed = <<>> /\ probes = 0 /\ probesAtEntry = 0
    /\ saves = 0 /\ timedOut = FALSE /\ kind = "none" /\ handled = "unset"
    /\ fault = FALSE
    /\ lastOp = "none" /\ closeLog = <<>> /\ inRow = FALSE /\ validAtStart = FALSE
    /\ prevResult = "none" /\ prevFault = FALSE /\ prevKind = "none"
    /\ saved = <<>> /\ olderSaved = <<>> /\ got = <<>> /\ rejected = {}
    /\ freshLoad = FALSE
    /\ dlDir \in InitialDirs /\ outFile \in {0, 1}
    /\ filesBefore = {} /\ dpc = "idle" /\ now = 0
    /\ newFile = <<>> /\ dret = "none" /\ dexit = "none"
    /\ triggered = FALSE /\ flight = <<>> /\ started = FALSE /\ inTime = FALSE
    /\ overwrote = FALSE
    /\ polledAt = -1 /\ contentType \in ContentTypes /\ outPath = <<>>
    /\ acq = [i \in Acqs |-> AcqIdle]
    /\ catDirs = CreateDirectories(
                    [c \in Categories |->
                        IF c = contentType /\ outFile # 0 THEN "used" ELSE "absent"])
    /\ fc = FcIdle

DlReturn(r, at) == dpc' = "done" /\ dret' = r /\ dexit' = at

\* AfterTrigger with the loop entered whatever the wait and the click did.
AfterTriggerPolls(out) == [next |-> "poll", ret |-> "none", at |-> "none"]

\* Lines 179-182 and 215-217: a wait or click that raises ends the call with
\* None from the except; otherwise the polling loop is entered.
AfterTrigger(out) ==
    IF out = "ok" THEN [next |-> "poll", ret |-> "none", at |-> "none"]
    ELSE [next |-> "done", ret |-> "None", at |-> "line217"]

\* download_from_browser lines 171-182: the listing before, then the click.
Trigger(out) ==
    /\ dpc = "idle"
    /\ filesBefore' = Listing(dlDir)
    /\ triggered' = (out = "ok")
    /\ dpc' = AfterTrigger(out).next
    /\ dret' = AfterTrigger(out).ret /\ dexit' = AfterTrigger(out).at
    /\ UNCHANGED << dlDir, now, newFile, outFile, flight, started, inTime, overwrote,
                    polledAt,
                    contentType, outPath >>
    /\ UNCHANGED << authVars, storeGhosts, acq, catDirs, fc >>

\* One turn of the loop of lines 188-200: the condition, the listing, the choice.
Poll(f) ==
    /\ dpc = "poll"
    /\ IF KeepsPolling(now)
       THEN /\ polledAt' = now
            /\ IF CompleteFiles(dlDir, filesBefore) # {}
               THEN /\ f \in CompleteFiles(dlDir, filesBefore)
                    /\ newFile' = f /\ dpc' = "move"
               ELSE /\ f = <<>>
                    /\ dpc' = "sleep" /\ UNCHANGED newFile
            /\ UNCHANGED << dret, dexit >>
       ELSE /\ f = <<>>
            /\ DlReturn("None", "line206")
            /\ UNCHANGED << newFile, polledAt >>
    /\ UNCHANGED << dlDir, filesBefore, now, outFile, triggered, flight, started,
                    inTime, overwrote,
                    contentType, outPath >>
    /\ UNCHANGED << authVars, storeGhosts, acq, catDirs, fc >>

\* time.sleep(1), line 202.
Sleep ==
    /\ dpc = "sleep" /\ now <= DownloadTimeout
    /\ now' = now + 1 /\ dpc' = "poll"
    /\ UNCHANGED << dlDir, filesBefore, newFile, dret, dexit, outFile, triggered,
                    flight, started, inTime, overwrote,
                    polledAt, contentType, outPath >>
    /\ UNCHANGED << authVars, storeGhosts, acq, catDirs, fc >>

\* MoveFile with the source removed although the move failed.
MoveFileLosesSource(dir, out, f, moved) ==
    IF moved THEN [dir |-> [dir EXCEPT ![f] = 0], out |-> dir[f]]
    ELSE [dir |-> [dir EXCEPT ![f] = 0], out |-> out]

\* MoveFile as a copy: the source stays in the download directory.
MoveFileKeepsSource(dir, out, f, moved) ==
    IF moved THEN [dir |-> dir, out |-> dir[f]]
    ELSE [dir |-> dir, out |-> out]

\* MoveFile with every entry of the download directory taken along.
MoveFileClearsDir(dir, out, f, moved) ==
    IF moved THEN [dir |-> EmptyDir, out |-> dir[f]]
    ELSE [dir |-> dir, out |-> out]

\* shutil.move(src, dst), line 210: done, dst holds what src held (whatever was
\* at dst before) and src is gone; failed, src is as it was.
MoveFile(dir, out, f, moved) ==
    IF moved THEN [dir |-> [dir EXCEPT ![f] = 0], out |-> dir[f]]
    ELSE [dir |-> dir, out |-> out]

\* Lines 208-217: the output path, shutil.move to it, the return.
Move(moveOk) ==
    /\ dpc = "move"
    /\ LET moved == moveOk /\ dlDir[newFile] # 0 /\ DirExists(catDirs, contentType)
           r == MoveFile(dlDir, outFile, newFile, moved)
       IN /\ dlDir' = r.dir /\ outFile' = r.out
          /\ IF moved
             THEN /\ DlReturn("path", "line213") /\ outPath' = OutputPath(contentType)
                  /\ catDirs' = DirsAfterWrite(catDirs, contentType)
             ELSE /\ DlReturn("None", "line217") /\ UNCHANGED << outPath, catDirs >>
    /\ UNCHANGED << filesBefore, now, newFile, triggered, flight, started,
                    inTime, overwrote, polledAt, contentType >>
    /\ UNCHANGED << authVars, storeGhosts, acq, fc >>

\* A complete file that the loop may still pick appears under `name`.
AppearsInTime(name) ==
    /\ name \notin filesBefore
    /\ dpc \in {"poll", "sleep"} /\ now < DownloadTimeout

\* A finished download replaces, while the loop may still list the directory, a
\* file that was there before the click.
OverwritesInTime(name) ==
    /\ name \in filesBefore
    /\ dpc \in {"poll", "sleep"} /\ now < DownloadTimeout

\* The browser starts writing the download under an in-progress name.
BrowserBegins(f, x) ==
    /\ triggered /\ ~started
    /\ f \in FinalNames /\ x \in InProgressSuffixes
    /\ started' = TRUE /\ flight' = f \o << x >>
    /\ dlDir' = [dlDir EXCEPT ![f \o << x >>] = 2]
    /\ UNCHANGED << filesBefore, dpc, now, newFile, dret, dexit, outFile, triggered,
                    inTime, overwrote, polledAt, contentType, outPath >>
    /\ UNCHANGED << authVars, storeGhosts, acq, catDirs, fc >>

\* The browser renames the finished download to its final name.
BrowserFinishes ==
    /\ flight # <<>>
    /\ LET final == SubSeq(flight, 1, Len(flight) - 1)
       IN /\ dlDir' = [dlDir EXCEPT ![flight] = 0, ![final] = 2]
          /\ inTime' = (inTime \/ AppearsInTime(final))
          /\ overwrote' = (overwrote \/ OverwritesInTime(final))
    /\ flight' = <<>>
    /\ UNCHANGED << filesBefore, dpc, now, newFile, dret, dexit, outFile, triggered,
                    started, polledAt, contentType, outPath >>
    /\ UNCHANGED << authVars, storeGhosts, acq, catDirs, fc >>

\* Another complete file lands in ~/Downloads while the loop runs: a second file
\* of the same click, or a file another program saves there (content 3).
OtherFileAppears(f) ==
    /\ dpc \in {"poll", "sleep"}
    /\ f \in FinalNames /\ dlDir[f] = 0
    /\ \A n \in DlNames : dlDir[n] # 3
    /\ dlDir' = [dlDir EXCEPT ![f] = 3]
    /\ UNCHANGED << filesBefore, dpc, now, newFile, dret, dexit, outFile, triggered,
                    flight, started, inTime, overwrote,
                    polledAt, contentType, outPath >>
    /\ UNCHANGED << authVars, storeGhosts, acq, catDirs, fc >>

NextDL ==
    \/ \E out \in WaitOutcomes : Trigger(out)
    \/ \E f \in DlNames \cup { <<>> } : Poll(f)
    \/ Sleep
    \/ \E moveOk \in BOOLEAN : Move(moveOk)
    \/ \E f \in FinalNames, x \in InProgressSuffixes : BrowserBegins(f, x)
    \/ BrowserFinishes
    \/ \E f \in FinalNames : OtherFileAppears(f)

SpecDL == InitDL /\ [][NextDL]_vars

\* The calling thread keeps running: a sleep returns, the loop goes on.
SynchronizerStep ==
    \/ \E f \in DlNames \cup { <<>> } : Poll(f)
    \/ Sleep
    \/ \E moveOk \in BOOLEAN : Move(moveOk)

FairSpecDL == SpecDL /\ WF_vars(SynchronizerStep)

\* The other operations of a Downloader, between download_from_browser calls.

\* save_text_content, save_binary_content, download_from_url: a file of another
\* name is opened for writing under get_dir(content_type); open raises where the
\* directory is gone.
SaveContent(ct) ==
    /\ dpc \in {"idle", "done"}
    /\ ct \in ContentTypes
    /\ catDirs' = IF DirExists(catDirs, ct) THEN DirsAfterWrite(catDirs, ct) ELSE catDirs
    /\ UNCHANGED << dlVars, authVars, storeGhosts, acq, fc >>

\* cleanup_empty_dirs.
Cleanup ==
    /\ dpc \in {"idle", "done"}
    /\ catDirs' = CleanupEmptyDirs(catDirs)
    /\ UNCHANGED << dlVars, authVars, storeGhosts, acq, fc >>

\* Downloader(output_dir) constructed again on the same output directory.
Construct ==
    /\ dpc \in {"idle", "done"}
    /\ catDirs' = CreateDirectories(catDirs)
    /\ UNCHANGED << dlVars, authVars, storeGhosts, acq, fc >>

NextTree ==
    \/ NextDL
    \/ \E ct \in ContentTypes : SaveContent(ct)
    \/ Cleanup
    \/ Construct

SpecTree == InitDL /\ [][NextTree]_vars

\* ------------------------------------------- download calls side by side
\* Two download_from_browser calls (two threads or two processes) that watch
\* the same ~/Downloads; each statement group of a call is one step, and the
\* steps of the calls interleave.
dlCallVars == << filesBefore, dpc, now, newFile, dret, dexit, outFile, triggered,
                flight, started, inTime, overwrote,
                    polledAt, contentType, outPath >>

\* The content of the file the browser writes for the click of call i.
OwnContent(i) == 3 + i

InitConc ==
    /\ driver = "live" /\ browsers = 1
    /\ cookieFile = NoFile /\ jar = <<>>
    /\ pc = "idle" /\ result = "none" /\ returnedAt = "none"
    /\ markers = {} /\ urlAuth = FALSE /\ polls = 0
    /\ lastDom = NoDom /\ loaded = "unset"
    /\ enteredCreds = FALSE /\ typed = <<>> /\ probes = 0 /\ probesAtEntry = 0
    /\ saves = 0 /\ timedOut = FALSE /\ kind = "none" /\ handled = "unset"
    /\ fault = FALSE
    /\ lastOp = "none" /\ closeLog = <<>> /\ inRow = FALSE /\ validAtStart = FALSE
    /\ prevResult = "none" /\ prevFault = FALSE /\ prevKind = "none"
    /\ saved = <<>> /\ olderSaved = <<>> /\ got = <<>> /\ rejected = {}
    /\ freshLoad = FALSE
    /\ dlDir \in InitialDirs /\ outFile = 0
    /\ filesBefore = {} /\ dpc = "idle" /\ now = 0
    /\ newFile = <<>> /\ dret = "none" /\ dexit = "none"
    /\ triggered = FALSE /\ flight = <<>> /\ started = FALSE /\ inTime = FALSE
    /\ overwrote = FALSE
    /\ polledAt = -1 /\ contentType = "videos" /\ outPath = <<>>
    /\ acq = [i \in Acqs |-> AcqIdle]
    /\ catDirs = CreateDirectories([c \in Categories |-> "absent"])
    /\ fc = FcIdle

\* Lines 171-182 of call i: the listing before, then the click.
CTrigger(i, out) ==
    /\ acq[i].pc = "idle"
    /\ acq' = [acq EXCEPT ![i] =
                 [@ EXCEPT !.before = Listing(dlDir), !.clicked = (out = "ok"),
                           !.pc = AfterTrigger(out).next, !.ret = AfterTrigger(out).ret,
                           !.at = AfterTrigger(out).at]]
    /\ UNCHANGED << dlDir, dlCallVars, authVars, storeGhosts, catDirs, fc >>

\* One turn of the loop of lines 188-200 of call i.
CPoll(i, f) ==
    /\ acq[i].pc = "poll"
    /\ IF KeepsPolling(acq[i].t)
       THEN IF CompleteFiles(dlDir, acq[i].before) # {}
            THEN /\ f \in CompleteFiles(dlDir, acq[i].before)
                 /\ acq' = [acq EXCEPT ![i] = [@ EXCEPT !.sel = f, !.pc = "move"]]
            ELSE /\ f = <<>>
                 /\ acq' = [acq EXCEPT ![i] = [@ EXCEPT !.pc = "sleep"]]
       ELSE /\ f = <<>>
            /\ acq' = [acq EXCEPT ![i] =
                         [@ EXCEPT !.pc = "done", !.ret = "None", !.at = "line206"]]
    /\ UNCHANGED << dlDir, dlCallVars, authVars, storeGhosts, catDirs, fc >>

\* time.sleep(1), line 202, of call i.
CSleep(i) ==
    /\ acq[i].pc = "sleep" /\ acq[i].t <= DownloadTimeout
    /\ acq' = [acq EXCEPT ![i] = [@ EXCEPT !.t = @ + 1, !.pc = "poll"]]
    /\ UNCHANGED << dlDir, dlCallVars, authVars, storeGhosts, catDirs, fc >>

\* Lines 208-217 of call i: shutil.move of its new_file to its own output path;
\* the move raises when the file is no longer there.
CMove(i, moveOk) ==
    /\ acq[i].pc = "move"
    /\ LET moved == moveOk /\ dlDir[acq[i].sel] # 0
           r == MoveFile(dlDir, acq[i].out, acq[i].sel, moved)
       IN /\ dlDir' = r.dir
          /\ acq' = [acq EXCEPT ![i] =
                       [@ EXCEPT !.out = r.out, !.pc = "done",
                                 !.ret = IF moved THEN "path" ELSE "None",
                                 !.at = IF moved THEN "line213" ELSE "line217"]]
    /\ UNCHANGED << dlCallVars, authVars, storeGhosts, catDirs, fc >>

\* The browser finishes the download that the click of call i started.
Deliver(i, f) ==
    /\ acq[i].clicked /\ ~acq[i].delivered
    /\ f \in FinalNames /\ dlDir[f] = 0
    /\ dlDir' = [dlDir EXCEPT ![f] = OwnContent(i)]
    /\ acq' = [acq EXCEPT ![i] = [@ EXCEPT !.delivered = TRUE]]
    /\ UNCHANGED << dlCallVars, authVars, storeGhosts, catDirs, fc >>

NextConc ==
    \/ \E i \in Acqs, out \in WaitOutcomes : CTrigger(i, out)
    \/ \E i \in Acqs, f \in DlNames \cup { <<>> } : CPoll(i, f)
    \/ \E i \in Acqs : CSleep(i)
    \/ \E i \in Acqs, moveOk \in BOOLEAN : CMove(i, moveOk)
    \/ \E i \in Acqs, f \in FinalNames : Deliver(i, f)

SpecConc == InitConc /\ [][NextConc]_vars

\* ------------------------------------------------- FlashcardGenerator.generate
MaxCards == 3
MaxAnswer == 2
MaxKeywords == 2

\* The num_cards arguments tried: an int, nothing in generate restricts it.
NumCardsArgs == (0 - 1)..MaxCards

Min(a, b) == IF a < b THEN a ELSE b
Max(a, b) == IF a > b THEN a ELSE b

\* k cards of one source.
Copies(x, k) == [i \in 1..k |-> x]

\* Slice with nothing cut off.
SliceAll(s, n) == s

\* The Python slice s[:n]: the first n items, or all but the last -n.
Slice(s, n) ==
    IF n >= 0 THEN SubSeq(s, 1, Min(n, Len(s)))
    ELSE SubSeq(s, 1, Max(0, Len(s) + n))

\* generate line 78: remaining = max(0, num_cards - len(cards)).
Remaining(n, cards) == Max(0, n - Len(cards))

\* _generate_basic_cards: one card per keyword of topic.keywords[:num_cards], the
\* summary card when that is fewer than num_cards, and the slice [:num_cards].
BasicCards(kw, m) ==
    LET fromKeywords == Slice(Copies("keyword", kw), m)
        all == IF Len(fromKeywords) < m THEN Append(fromKeywords, "summary")
               ELSE fromKeywords
    IN Slice(all, m)

\* The generator as constructed: with or without each client.
InitCards ==
    /\ driver = "None" /\ browsers = 0
    /\ cookieFile = NoFile /\ jar = <<>>
    /\ pc = "idle" /\ result = "none" /\ returnedAt = "none"
    /\ markers = {} /\ urlAuth = FALSE /\ polls = 0
    /\ lastDom = NoDom /\ loaded = "unset"
    /\ enteredCreds = FALSE /\ typed = <<>> /\ probes = 0 /\ probesAtEntry = 0
    /\ saves = 0 /\ timedOut = FALSE /\ kind = "none" /\ handled = "unset"
    /\ fault = FALSE
    /\ lastOp = "none" /\ closeLog = <<>> /\ inRow = FALSE /\ validAtStart = FALSE
    /\ prevResult = "none" /\ prevFault = FALSE /\ prevKind = "none"
    /\ saved = <<>> /\ olderSaved = <<>> /\ got = <<>> /\ rejected = {}
    /\ freshLoad = FALSE
    /\ dlDir = EmptyDir /\ filesBefore = {} /\ dpc = "idle" /\ now = 0
    /\ newFile = <<>> /\ dret = "none" /\ dexit = "none" /\ outFile = 0
    /\ triggered = FALSE /\ flight = <<>> /\ started = FALSE /\ inTime = FALSE
    /\ overwrote = FALSE
    /\ polledAt = -1 /\ contentType = "videos" /\ outPath = <<>>
    /\ acq = [i \in Acqs |-> AcqIdle]
    /\ catDirs = CreateDirectories([c \in Categories |-> "absent"])
    /\ fc \in { [FcIdle EXCEPT !.nlm = a, !.gem = b] : a \in BOOLEAN, b \in BOOLEAN }

notCards == << authVars, storeGhosts, dlVars, acq, catDirs >>

\* generate is called: lines 48-66, cards = [].
GenerateStart(n, incl, kw) ==
    /\ fc.pc \in {"idle", "done"}
    /\ n \in NumCardsArgs /\ kw \in 0..MaxKeywords
    /\ fc' = [FcIdle EXCEPT !.pc = "notebooklm", !.n = n, !.incl = incl, !.kw = kw,
                            !.nlm = fc.nlm, !.gem = fc.gem]
    /\ UNCHANGED notCards

\* Lines 68-74: NotebookLM, when asked for and there; what it raises is logged.
TryNotebookLM(ok, k) ==
    /\ fc.pc = "notebooklm"
    /\ k \in 0..MaxAnswer
    /\ IF fc.incl /\ fc.nlm
       THEN /\ ~ok => k = 0
            /\ fc' = [fc EXCEPT !.pc = "gemini",
                                !.tried = Append(@, "notebooklm"),
                                !.cards = @ \o Copies("notebooklm", k),
                                !.failed = IF ok THEN @ ELSE @ \cup {"notebooklm"}]
       ELSE /\ ok /\ k = 0
            /\ fc' = [fc EXCEPT !.pc = "gemini"]
    /\ UNCHANGED notCards

\* Lines 76-84: Gemini, when there and cards are missing, is asked for the
\* missing ones and answers with any number of cards; what it raises is logged.
TryGemini(ok, k) ==
    /\ fc.pc = "gemini"
    /\ k \in 0..MaxAnswer
    /\ IF fc.gem /\ Remaining(fc.n, fc.cards) > 0
       THEN /\ ~ok => k = 0
            /\ fc' = [fc EXCEPT !.pc = "basic",
                                !.tried = Append(@, "gemini"),
                                !.asked = Remaining(fc.n, fc.cards),
                                !.cards = @ \o Copies("gemini", k),
                                !.failed = IF ok THEN @ ELSE @ \cup {"gemini"}]
       ELSE /\ ok /\ k = 0
            /\ fc' = [fc EXCEPT !.pc = "basic"]
    /\ UNCHANGED notCards

\* Lines 86-89: the basic cards, when the cards collected are too few.
TryBasic ==
    /\ fc.pc = "basic"
    /\ IF Len(fc.cards) < fc.n
       THEN fc' = [fc EXCEPT !.pc = "return",
                             !.tried = Append(@, "basic"),
                             !.cards = @ \o BasicCards(fc.kw, fc.n - Len(fc.cards))]
       ELSE fc' = [fc EXCEPT !.pc = "return"]
    /\ UNCHANGED notCards

\* Lines 91-95: the deck of cards[:num_cards].
ReturnDeck ==
    /\ fc.pc = "return"
    /\ fc' = [fc EXCEPT !.pc = "done", !.deck = Slice(fc.cards, fc.n)]
    /\ UNCHANGED notCards

NextCards ==
    \/ \E n \in NumCardsArgs, incl \in BOOLEAN, kw \in 0..MaxKeywords :
          GenerateStart(n, incl, kw)
    \/ \E ok \in BOOLEAN, k \in 0..MaxAnswer : TryNotebookLM(ok, k)
    \/ \E ok \in BOOLEAN, k \in 0..MaxAnswer : TryGemini(ok, k)
    \/ TryBasic
    \/ ReturnDeck

SpecCards == InitCards /\ [][NextCards]_vars

\* ------------------------------------------------------------- properties
\* The probe's evidence for "signed in": the page loaded and showed the
\* indicator, or showed neither the indicator nor a sign-in link.
ProbeSatisfied(d) ==
    /\ d.load
    /\ \/ d.indicator = "found"
       \/ d.indicator = "absent" /\ d.signin = "absent"

C2_StaleFallsThrough ==
    (loaded = "yes" /\ probes >= 1 /\ returnedAt # "line170")
        => (pc = "SignInPage" \/ enteredCreds)

C2_Witness ==
    /\ loaded = "yes" /\ probes = 1 /\ pc = "SignInPage" /\ ~IsLoggedIn(lastDom)
    /\ lastDom.load /\ lastDom.signin = "found"

\* C3: when _load_cookies reported no snapshot, the sign-in page is opened before
\* any signed-in probe, and a call that then returns True has saved exactly once.
C3_FreshLogin ==
    loaded = "no" =>
        /\ pc # "VerifyingSession"
        /\ enteredCreds => probesAtEntry = 0
        /\ result = "True" => (saves = 1 /\ returnedAt = "line203" /\ enteredCreds)

C3_Witness ==
    /\ loaded = "no" /\ result = "True" /\ pc = "idle" /\ saves = 1
    /\ cookieFile.exists

\* C4 (as stated): after the verification wait ran out, the call does not go on
\* to the final check and does not return True.
C4_Claim == timedOut => (pc # "FinalCheck" /\ result # "True")

\* C7 (as stated): login_google never raises to its caller.
C7_Claim == result # "raised"

RECURSIVE KeptFrom(_, _, _)
KeptFrom(cs, rej, i) ==
    IF i > Len(cs) THEN <<>>
    ELSE (IF i \in rej THEN <<>> ELSE << cs[i] >>) \o KeptFrom(cs, rej, i + 1)

Kept(cs, rej) == KeptFrom(cs, rej, 1)

\* C9: a _load_cookies call that finds the cookie file absent, or present but not
\* unpicklable, returns False: it neither raises nor reports a snapshot, and it
\* injects nothing.
C9_LoadNotFound ==
    (loaded # "unset" /\ (~cookieFile.exists \/ ~Loads(cookieFile.data).ok))
        => (loaded = "no" /\ got = <<>> /\ rejected = {})

C9_Witness ==
    /\ loaded = "no" /\ cookieFile.exists /\ cookieFile.data # <<>>
    /\ ~Loads(cookieFile.data).ok

\* C10 (as stated): the list read back equals the list saved, and the cookies a
\* fresh browser holds after the load are that list.
C10_Original ==
    (loaded = "yes" /\ freshLoad) => (got = saved /\ jar = saved)

\* C10 (amended): the list read back equals the list saved, cookie by cookie and
\* in order; a fresh browser holds after the load the cookies of that list whose
\* add_cookie did not raise, in the list's order.
C10_RoundTrip ==
    loaded = "yes" =>
        /\ got = saved
        /\ freshLoad => jar = Kept(saved, rejected)

C10_Witness ==
    /\ loaded = "yes" /\ freshLoad /\ got = saved /\ Len(saved) = MaxCookies
    /\ rejected # {} /\ jar # <<>> /\ jar # saved

\* C5 (as stated): the selected file never has an in-progress suffix, and a
\* download renamed to a new final name before the deadline is selected, so the
\* call does not end as timed out.
C5_Claim ==
    /\ newFile # <<>> => ~EndsInProgress(newFile)
    /\ inTime => dexit # "line206"

\* C6: a call that clicked and got no complete new file returns None from the
\* timeout branch, not before the timeout has elapsed; the directory is not
\* listed once the timeout has elapsed; and, the calling thread running on,
\* every polling loop ends.
C6_TimeoutEnds ==
    /\ [](/\ (dpc = "done" /\ triggered /\ newFile = <<>>)
              => (dexit = "line206" /\ dret = "None" /\ now >= DownloadTimeout)
          /\ polledAt < DownloadTimeout)
    /\ ((dpc = "poll") ~> (dpc = "done"))

C6_Witness ==
    /\ dpc = "done" /\ dexit = "line206" /\ dret = "None" /\ triggered /\ ~started
    /\ now = DownloadTimeout /\ polledAt = DownloadTimeout - 1

\* C11 (as stated): a login_google call that began restoring a cached session and
\* has returned False has opened the sign-in page: no failure of the restore or of
\* its verification ends the call before credentials were attempted.
C11_Claim ==
    (lastOp = "login" /\ pc = "idle" /\ loaded # "unset" /\ result = "False")
        => enteredCreds

C13_SaveOnlyAfterCredentials ==
    /\ [](/\ (lastOp = "login" /\ result = "True" /\ returnedAt = "line170")
                => (saves = 0 /\ ~enteredCreds)
          /\ (lastOp = "login" /\ result = "True" /\ returnedAt # "line170")
                => /\ returnedAt = "line203" /\ enteredCreds /\ saves = 1
                   /\ cookieFile = FileOf(Dumps(jar)))
    /\ [][(lastOp' = "login" /\ pc # "FinalCheck")
             => (cookieFile' = cookieFile /\ saves' \in {0, saves})]_vars

C13_Witness ==
    /\ lastOp = "login" /\ result = "True" /\ returnedAt = "line170"
    /\ saves = 0 /\ cookieFile.exists /\ cookieFile # FileOf(Dumps(jar))

\* C14: a download_from_browser call whose wait for the button or whose click
\* raised has returned None from the except of line 215 with no listing of the
\* polling loop taken, no time slept and no file selected; and as long as no
\* click went through, the download directory and the output path stay as they
\* were.
C14_TriggerFailure ==
    /\ []((dpc # "idle" /\ ~triggered)
             => /\ dpc = "done" /\ dret = "None" /\ dexit = "line217"
                /\ polledAt = -1 /\ now = 0 /\ newFile = <<>>)
    /\ [][~triggered' => (dlDir' = dlDir /\ outFile' = outFile)]_vars

C14_Witness ==
    /\ dpc = "done" /\ ~triggered /\ dexit = "line217" /\ dret = "None"
    /\ filesBefore # {} /\ outFile = 1

\* The parts of file names in alphabetical order, and the order of names by it.
PartOrder == << "a", "b", "crdownload", "part", "pdf", "tmp" >>

PartRank(x) == CHOOSE i \in 1..Len(PartOrder) : PartOrder[i] = x

RECURSIVE NameLess(_, _)
NameLess(m, n) ==
    IF m = <<>> THEN n # <<>>
    ELSE IF n = <<>> THEN FALSE
    ELSE IF Head(m) # Head(n) THEN PartRank(Head(m)) < PartRank(Head(n))
    ELSE NameLess(Tail(m), Tail(n))

FirstByName(S) == CHOOSE f \in S : \A g \in S \ {f} : NameLess(f, g)

\* C15 (as stated): the poll that selects a file selects the first by name of the
\* complete new files it lists, so the selection is a function of the before-set
\* and the directory contents.
C15_Claim ==
    [][(dpc = "poll" /\ dpc' = "move")
          => newFile' = FirstByName(CompleteFiles(dlDir, filesBefore))]_vars

\* C16: a download_from_browser call whose shutil.move raised returns None from
\* the except of line 215, and that step leaves the download directory as it
\* was: the selected file is still there under its name with its content.
C16_RelocationFailure ==
    /\ []((dpc = "done" /\ newFile # <<>> /\ dexit = "line217")
             => (dret = "None" /\ dlDir[newFile] # 0 /\ outPath = <<>>))
    /\ [][(dpc = "move" /\ dexit' = "line217")
             => (dret' = "None" /\ dlDir' = dlDir)]_vars

C16_Witness ==
    /\ dpc = "done" /\ newFile # <<>> /\ dexit = "line217" /\ dret = "None"
    /\ dlDir[newFile] = 2

C18_OnlyNewFiles ==
    /\ [](/\ newFile # <<>> => (newFile \notin filesBefore /\ triggered)
          /\ (dpc = "idle" \/ ~triggered) => (~started /\ flight = <<>>))
    /\ [][(dpc = "idle" /\ dpc' # "idle")
             => (filesBefore' = Listing(dlDir) /\ dlDir' = dlDir)]_vars
    /\ [][dpc # "idle" => filesBefore' = filesBefore]_vars

C18_Witness ==
    /\ dpc = "move" /\ newFile = << "b", "pdf" >>
    /\ filesBefore = { << "a", "pdf" >>, << "a", "pdf", "part" >> }
    /\ dlDir[<< "a", "pdf" >>] = 1 /\ dlDir[<< "b", "pdf" >>] = 2

\* C19 (as stated): a close call on a controller with a browser has, on every
\* exit path, saved the session, then called driver.quit, then forgotten the
\* driver.
C19_Claim ==
    (lastOp = "close" /\ closeLog # <<>>) => closeLog = << "save", "quit", "forget" >>

\* C20 (as stated): the browsers the controller has created and not quit are at
\* most one.
C20_Claim == browsers <= 1

\* C21 (as stated): of download_from_browser calls that watch the same directory
\* side by side, no two select the same file, and a call that returns a path has
\* put at that path the file the browser wrote for its own click.
C21_Claim ==
    /\ \A i, j \in Acqs :
          (i # j /\ acq[i].sel # <<>>) => acq[i].sel # acq[j].sel
    /\ \A i \in Acqs : acq[i].ret = "path" => acq[i].out = OwnContent(i)

\* How a download_from_browser call failed, by the statement that ended it.
FailureKind(a) ==
    IF a.at = "line206" THEN "Timeout"
    ELSE IF a.at = "line217" /\ ~a.clicked THEN "TriggerFailed"
    ELSE IF a.at = "line217" /\ a.sel # <<>> THEN "RelocationFailed"
    ELSE "none"

\* C22 (as stated): two download_from_browser calls that failed in different
\* ways (timeout, trigger failure, relocation failure) returned different values.
C22_Claim ==
    \A i, j \in Acqs :
        (/\ FailureKind(acq[i]) # "none" /\ FailureKind(acq[j]) # "none"
         /\ FailureKind(acq[i]) # FailureKind(acq[j]))
            => acq[i].ret # acq[j].ret

\* C23 (as stated): two login_google calls in a row that failed at different
\* states (credential entry wait, verification wait, final check) returned
\* different outcomes.
C23_Claim ==
    (/\ lastOp = "login" /\ pc = "idle" /\ inRow
     /\ AuthFailure \notin {"none", "other"} /\ prevKind \notin {"none", "other"}
     /\ AuthFailure # prevKind)
        => result # prevResult

C25_Claim ==
    /\ []((lastOp = "login" /\ pc = "idle") => result \in {"True", "False"})
    /\ ((pc # "idle") ~> (pc = "idle"))

\* The cookies of a list, as a set.
CookiesOf(cs) == { cs[i] : i \in 1..Len(cs) }

\* C26: whenever the cookie file can be unpickled, it holds exactly the cookie
\* list of the last complete save, whatever earlier saves wrote; a complete save
\* writes the dump of the browser's cookies and nothing else; and the list a load
\* returns holds no cookie that only an earlier save wrote.
C26_Overwrite ==
    /\ []((cookieFile.exists /\ Loads(cookieFile.data).ok)
             => Loads(cookieFile.data).cookies = saved)
    /\ [](loaded = "yes" => CookiesOf(got) \cap (CookiesOf(olderSaved) \ CookiesOf(saved)) = {})
    /\ [][(saved' # saved \/ olderSaved' # olderSaved)
             => (saved' = jar /\ cookieFile' = FileOf(Dumps(jar)))]_vars

C26_Witness ==
    /\ loaded = "yes" /\ got = saved /\ saved # <<>>
    /\ CookiesOf(olderSaved) \ CookiesOf(saved) # {}
    /\ Len(olderSaved) > Len(saved)

\* C27: the cookie file is written only with the cookies of a session whose
\* signed-in check succeeded: a close that follows a login_google call that
\* returned False, and whose save and quit both ran to the end, leaves a
\* previously saved snapshot as it was.
C27_Claim ==
    [][(/\ lastOp = "login" /\ pc = "idle" /\ result = "False"
        /\ cookieFile.exists /\ Loads(cookieFile.data).ok
        /\ lastOp' = "close" /\ closeLog' = << "save", "quit", "forget" >>)
           => cookieFile' = cookieFile]_vars

\* C28: whatever Downloader operations ran before (cleanup_empty_dirs included),
\* when download_from_browser is about to move the selected file into the
\* directory of a known category, that directory exists.
C28_Claim ==
    (dpc = "move" /\ contentType \in Categories) => catDirs[contentType] # "absent"

\* C29: every step of a download_from_browser call other than a move that went
\* through leaves the download directory, the output file and the category
\* directories as they were, so a call that ends on the timeout or on a failed
\* click has written nothing; the move that goes through takes the selected file,
\* and only it, out of the download directory.
C29_Frame ==
    /\ [][dpc' # dpc =>
            IF dpc = "move" /\ dret' = "path"
            THEN /\ dlDir[newFile] # 0
                 /\ dlDir' = [dlDir EXCEPT ![newFile] = 0]
            ELSE /\ dlDir' = dlDir /\ outFile' = outFile /\ catDirs' = catDirs]_vars
    /\ []((dexit = "line206" \/ (dexit = "line217" /\ ~triggered))
             => (dret = "None" /\ outPath = <<>>))

C29_Witness ==
    /\ dret = "path" /\ dlDir[newFile] = 0
    /\ \E n \in DlNames : n # newFile /\ dlDir[n] # 0

\* C30: what has been typed is the email, then the password, each typed once and
\* only after the sign-in page was opened; the password input is looked up only
\* when the email has been submitted; _handle_verification runs only when the
\* password has been submitted.
C30_EntryOrder ==
    /\ [](typed \in { <<>>, << "email" >>, << "email", "password" >> })
    /\ [](typed # <<>> => enteredCreds)
    /\ [](pc = "EmailEntry" => (enteredCreds /\ typed = <<>>))
    /\ [](pc = "PasswordEntry" => typed = << "email" >>)
    /\ []((pc \in {"ChallengeScan", "ChallengeWait"} \/ handled # "unset" \/ kind # "none")
             => typed = << "email", "password" >>)
    /\ [][(typed' # typed /\ typed' # <<>>)
             => \/ pc = "EmailEntry" /\ typed' = << "email" >>
                \/ pc = "PasswordEntry" /\ typed' = << "email", "password" >>]_vars

C30_Witness ==
    /\ lastOp = "login" /\ pc = "idle" /\ result = "True"
    /\ typed = << "email", "password" >> /\ handled = "True" /\ kind = "2fa"

\* C31: the challenge type is decided by the first marker found, the phone
\* prompt before the 2-Step prompt; whichever type it is, the handler answers
\* True only from a poll that saw the signed-in URL before the limit, and the
\* wait times out after the same number of polls, answering False.
C31_ChallengeOrder ==
    /\ [][kind' \notin {kind, "none"}
            => /\ pc = "ChallengeScan" /\ markers # {}
               /\ kind' = (IF PhoneMarker \in markers THEN "phone" ELSE "2fa")]_vars
    /\ [](pc = "ChallengeWait" => kind \in {"phone", "2fa"})
    /\ [][(handled' = "True" /\ handled # "True")
            => /\ pc = "ChallengeWait" /\ kind \in {"phone", "2fa"}
               /\ urlAuth /\ polls < VerifyPolls]_vars
    /\ [](timedOut => /\ kind \in {"phone", "2fa"} /\ polls = VerifyPolls
                      /\ handled = "False")

C31_Witness ==
    /\ kind = "phone" /\ markers = Markers /\ timedOut /\ polls = VerifyPolls
    /\ handled = "False"

\* C32: a login_google call that has returned True either restored the session
\* from a cookie file it read to the end (no save in the call), or saved the
\* cookies of the confirmed session, the file then holding exactly their dump; a
\* save of the final check that does not complete makes the call return False.
C32_FileBehindTrue ==
    /\ []((lastOp = "login" /\ pc = "idle" /\ result = "True")
             => /\ cookieFile.exists /\ Loads(cookieFile.data).ok
                /\ \/ returnedAt = "line170" /\ loaded = "yes" /\ saves = 0
                   \/ /\ returnedAt = "line203" /\ saves = 1
                      /\ Loads(cookieFile.data).cookies = jar)
    /\ [][(pc = "FinalCheck" /\ saves' = saves + 1 /\ cookieFile' # FileOf(Dumps(jar)))
             => (pc' = "idle" /\ result' = "False")]_vars

C32_Witness ==
    /\ lastOp = "login" /\ pc = "idle" /\ result = "True" /\ returnedAt = "line203"
    /\ loaded = "no" /\ saves = 1 /\ cookieFile = FileOf(Dumps(jar)) /\ jar # <<>>

\* No file other than the download has landed in the download directory.
NoOtherFile == outFile # 3 /\ \A n \in DlNames : dlDir[n] # 3

\* C33: a download finished in time under a name that was listed before the
\* click is never the selected file and never reaches the output path; with no
\* other new file around, the call ends on the timeout branch with None.
C33_NameOnly ==
    /\ overwrote => (newFile \notin filesBefore /\ outFile # 2)
    /\ (overwrote /\ dpc = "done" /\ NoOtherFile)
          => (dret = "None" /\ dexit = "line206" /\ newFile = <<>>)

C33_Witness ==
    /\ overwrote /\ dpc = "done" /\ dexit = "line206" /\ NoOtherFile
    /\ \E n \in filesBefore : dlDir[n] = 2

\* The entries that are new by name and carry no in-progress suffix.
NewEntries ==
    { f \in DlNames :
        dlDir[f] # 0 /\ f \notin filesBefore /\ f[Len(f)] \notin InProgressSuffixes }

\* C34: a poll within the timeout that finds a new entry without an in-progress
\* suffix selects one, whatever its extension, and goes on to the move; the
\* path a call returns ends in <filename>.<expected_extension>.
C34_ExtensionIgnored ==
    /\ [][(dpc = "poll" /\ dpc' # "poll" /\ now < DownloadTimeout /\ NewEntries # {})
             => (dpc' = "move" /\ newFile' \in NewEntries)]_vars
    /\ [](dret = "path"
             => /\ outPath[Len(outPath)] = ExpectedExtension
                /\ outPath[Len(outPath) - 1] = Filename)

C34_Witness ==
    /\ dret = "path" /\ outFile = 2 /\ newFile[Len(newFile)] = "pdf"
    /\ outPath[Len(outPath)] = "mp4"

\* C35: a login_google call that ends at the credential check returns False and
\* has created no browser, read no cookie file and written none: the step leaves
\* driver, browser count, cookie jar, page and cookie file as they were.
C35_NoCredentials ==
    /\ [][(lastOp' = "login" /\ returnedAt' = "line157" /\ pc = "idle")
             => /\ pc' = "idle" /\ result' = "False"
                /\ driver' = driver /\ browsers' = browsers /\ jar' = jar
                /\ cookieFile' = cookieFile /\ markers' = markers
                /\ urlAuth' = urlAuth]_vars
    /\ []((lastOp = "login" /\ returnedAt = "line157")
             => /\ result = "False" /\ loaded = "unset" /\ saves = 0 /\ probes = 0
                /\ ~enteredCreds /\ typed = <<>>)

C35_Witness ==
    /\ lastOp = "login" /\ returnedAt = "line157" /\ result = "False"
    /\ driver = "None" /\ browsers = 0 /\ cookieFile.exists

\* C36: a _load_cookies call that unpickled a list reports it as loaded whatever
\* add_cookie did: every cookie whose add_cookie did not raise is in the browser
\* afterwards, also one that comes after a cookie that failed, and a fresh
\* browser holds no more cookies than were accepted.
C36_PerCookieTolerance ==
    /\ got # <<>> => loaded = "yes"
    /\ loaded = "yes" =>
          /\ rejected \subseteq 1..Len(got)
          /\ \A i \in (1..Len(got)) \ rejected :
                \E k \in 1..Len(jar) : SameCookieId(jar[k], got[i])
          /\ freshLoad => Len(jar) <= Len(got) - Cardinality(rejected)

C36_Witness ==
    /\ loaded = "yes" /\ freshLoad /\ Len(got) = MaxCookies
    /\ rejected = 1..Len(got) /\ jar = <<>>

\* C37: after close the controller holds no driver, whether or not the save or
\* the quit went through; a close on a controller without a driver saves
\* nothing, quits nothing and leaves the cookie file and the browsers as they
\* were.
C37_CloseIdempotent ==
    /\ [](lastOp = "close" => (driver = "None" /\ jar = <<>> /\ pc = "idle"))
    /\ [][(lastOp' = "close" /\ driver = "live")
             => /\ closeLog' # <<>> /\ closeLog'[Len(closeLog')] = "forget"
                /\ driver' = "None"]_vars
    /\ [][(lastOp' = "close" /\ driver = "None" /\ pc = "idle")
             => /\ closeLog' = <<>> /\ driver' = "None"
                /\ cookieFile' = cookieFile /\ browsers' = browsers]_vars

C37_Witness ==
    /\ lastOp = "close" /\ closeLog = <<>> /\ driver = "None" /\ browsers = 1
    /\ cookieFile.exists /\ ~Loads(cookieFile.data).ok

\* The ranks of the sources in the order generate names them.
SourceRank(x) == CASE x = "notebooklm" -> 1 [] x = "gemini" -> 2 [] x = "basic" -> 3

\* The positions of the cards the clients delivered.
ClientCards(cs) == { i \in 1..Len(cs) : cs[i] \in {"notebooklm", "gemini"} }

\* The sources are tried in the order NotebookLM, Gemini, basic; Gemini is asked
\* for exactly the cards still missing; the basic generator runs only when the
\* clients delivered fewer than num_cards cards.
SourcesInOrder ==
    /\ \A i, j \in 1..Len(fc.tried) :
          i < j => SourceRank(fc.tried[i]) < SourceRank(fc.tried[j])
    /\ fc.asked # 0 =>
          /\ fc.asked > 0
          /\ fc.asked = fc.n - Cardinality({ i \in 1..Len(fc.cards) :
                                               fc.cards[i] = "notebooklm" })
    /\ (\E i \in 1..Len(fc.tried) : fc.tried[i] = "basic")
          => Cardinality(ClientCards(fc.cards)) < fc.n

====
